---- MODULE Spec2Model ----
(***************************************************************************)
(* A model of blockchain-pow-julia: the BlockGraph fork-choice engine      *)
(* (src/src/blockchain.rs), the event-sourced Ledger (src/src/ledger.rs)   *)
(* and the proof-of-work puzzle (src/src/proof_of_work.rs).                *)
(***************************************************************************)
EXTENDS Integers, Sequences, FiniteSets, TLC

\* ------------------------------------------------------------------ bounds

\* Block ids are 1..MaxId (BlockIdT: Ord + Copy; `char` in the tests).
MaxId == 3

\* The largest value of the amount type (AmountT: Unsigned + CheckedAdd + CheckedSub).
MaxAmount == 2

\* The ledger model stops accepting events once the log holds MaxLog of them.
MaxLog == 4

\* target_iterations (u16) ranges over 0..MaxTarget.
MaxTarget == 3

\* The do_work model stops sampling after MaxAttempts tested candidates.
MaxAttempts == 3

\* num_threads ranges over 0..MaxThreads.
MaxThreads == 2

\* The workers' do_work calls return at most MaxFinds times in all.
MaxFinds == 2

\* ------------------------------------------------------------------ values

\* Option::None for Block.parent.
None == 0

BlockIds == 1..MaxId

\* The event payloads a block of the graph model may carry.  BlockGraph only
\* ever compares them for equality (Block derives PartialEq).
BlockEventLists ==
    { <<>>,
      << [type |-> "NewUser", identifier |-> "u1", public_key |-> "k1"] >> }

\* struct Block { parent, id, events }
Block ==
    [parent : {None} \cup BlockIds, id : BlockIds, events : BlockEventLists]

\* Opaque user ids, public keys and signatures (UserIdT, PublicKeyT, SignatureT).
UserIds == {"u1", "u2"}

PublicKeys == {"k1", "k2"}

Signatures == {"s1"}

Amounts == 0..MaxAmount

\* The positions <<block id, event index>> a caller hands to with_event for
\* the verifier.
VerifierPositions == {<<1, 0>>, <<2, 1>>}

\* enum LedgerEvent { NewUser, Mint, Transfer }
NewUserEvents ==
    [type : {"NewUser"}, identifier : UserIds, public_key : PublicKeys]

MintEvents ==
    [type : {"Mint"}, beneficiary : UserIds, amount : Amounts]

TransferEvents ==
    [type : {"Transfer"}, benefactor : UserIds, beneficiary : UserIds,
     amount : Amounts, benefactor_signature : Signatures]

LedgerEvent == NewUserEvents \cup MintEvents \cup TransferEvents

\* num::Complex<f64>.  The model computes on complex numbers with integer
\* parts, on which f64 arithmetic is exact.
Complex(re, im) == [re |-> re, im |-> im]

\* The puzzles (c, re_min, re_max) of the model.
Puzzles ==
    { [c |-> Complex(-2, 0), re_min |-> -2, re_max |-> 2],
      [c |-> Complex(-1, -1), re_min |-> -2, re_max |-> 2],
      [c |-> Complex(-2, -1), re_min |-> -2, re_max |-> 1] }

TargetIterations == 0..MaxTarget

\* The candidates a caller may hand to check_work.
Candidates == {Complex(re, im) : re \in -2..2, im \in -1..1}

\* What Uniform::new(low, high).sample_iter yields: values of [low, high).
UniformSamples(low, high) == low..(high - 1)

VARIABLES
    block_ids_to_blocks,  \* HashMap<BlockIdT, Block>: a function on the stored ids
    block_id_graph,       \* DiGraphMap<BlockIdT, ()>: [nodes, edges]
    winning_chain,        \* Vec<Block>, root first
    add_result,           \* the last add_block call: [ret, arm]
    events,               \* Ledger.events of the ledger the caller holds
    accept_result,        \* what the last with_event call returned: "Ok" or the error
    work_args,            \* the arguments of the last check_work call
    work_result,          \* what it returned: [ret, value, iterations]
    dw_args,              \* the arguments of the do_work call
    dw_pc,                \* do_work: "outer", "inner" or "returned"
    dw_re,                \* the `re` of the outer loop
    dw_tested,            \* the candidates handed to check_work so far
    dw_found,             \* the value do_work returned
    dw_draws,             \* how many values were taken from each sampler: [re, im]
    h_args,               \* the Args of do-work: [keep_going, num_threads, puzzle, target_iterations]
    h_main,               \* main: "spawn", "recv", "received", "returned" or "exited"
    h_spawned,            \* the number of threads main has spawned
    h_worker,             \* per thread: "unspawned", "searching", "found" or "panicked"
    h_found,              \* per thread: the value its last do_work call returned
    h_channel,            \* the values sent and not yet received
    h_got,                \* what receiver.recv() returned to main, <<>> before
    h_finds               \* how many times do_work has returned

graph_vars == <<block_ids_to_blocks, block_id_graph, winning_chain, add_result>>

ledger_vars == <<events, accept_result>>

work_vars == <<work_args, work_result>>

dw_vars == <<dw_args, dw_pc, dw_re, dw_tested, dw_found, dw_draws>>

h_vars == <<h_args, h_main, h_spawned, h_worker, h_found, h_channel, h_got, h_finds>>

vars == <<block_ids_to_blocks, block_id_graph, winning_chain, add_result,
          events, accept_result, work_args, work_result,
          dw_args, dw_pc, dw_re, dw_tested, dw_found, dw_draws,
          h_args, h_main, h_spawned, h_worker, h_found, h_channel, h_got, h_finds>>

\* ------------------------------------------------------------------ helpers

Last(s) == s[Len(s)]

Min(S) == CHOOSE x \in S : \A y \in S : x <= y

\* Itertools::sorted over a set of ids: ascending.
RECURSIVE Sorted(_)
Sorted(S) ==
    IF S = {} THEN <<>> ELSE <<Min(S)>> \o Sorted(S \ {Min(S)})

\* DiGraphMap::add_node
add_node(g, n) == [nodes |-> g.nodes \cup {n}, edges |-> g.edges]

\* DiGraphMap::add_edge: both end points become nodes of the graph.
add_edge(g, a, b) ==
    [nodes |-> g.nodes \cup {a, b}, edges |-> g.edges \cup {<<a, b>>}]

\* DiGraphMap::neighbors: the targets of the outgoing edges of n.
neighbors(g, n) == {e[2] : e \in {d \in g.edges : d[1] = n}}

\* petgraph::algo::all_simple_paths(graph, from, to, 0, None): a depth-first
\* search from `from` that never revisits a node of the current path and
\* yields the path each time a child is `to`.  SimplePathsFrom is the search
\* below the path `visited`.
RECURSIVE SimplePathsFrom(_, _, _)
SimplePathsFrom(g, visited, to) ==
    UNION { IF child = to
               THEN {Append(visited, to)}
               ELSE IF \E i \in 1..Len(visited) : visited[i] = child
                       THEN {}
                       ELSE SimplePathsFrom(g, Append(visited, child), to)
            : child \in neighbors(g, Last(visited)) }

all_simple_paths(g, from, to) == SimplePathsFrom(g, <<from>>, to)

\* ------------------------------------------------------------------ BlockGraph

\* root_blocks without the filter on the parent: every stored block is a root.
root_blocks_AllBlocks(blocks) ==
    Sorted(DOMAIN blocks)

\* BlockGraph::root_blocks: the stored blocks without a parent, sorted by id.
root_blocks(blocks) ==
    Sorted({id \in DOMAIN blocks : blocks[id].parent = None})

\* BlockGraph::leaf_blocks: the stored ids without an outgoing edge, sorted.
leaf_blocks(blocks, g) ==
    Sorted({id \in DOMAIN blocks : neighbors(g, id) = {}})

\* The loop body without the `root == leaf` case.
ConsiderPair_NoSingleNode(g, acc, root, leaf) ==
    IF acc.panic # "none" THEN acc
    ELSE LET paths == all_simple_paths(g, root, leaf) IN
         IF Cardinality(paths) > 1
            THEN [acc EXCEPT !.panic = "unreachable"]
         ELSE IF paths = {} THEN acc
         ELSE LET candidate == CHOOSE p \in paths : TRUE IN
              IF Len(candidate) > Len(acc.winner)
                 THEN [acc EXCEPT !.winner = candidate]
                 ELSE acc

\* One iteration of the body of the double loop of calculate_winning_chain.
\* acc is [winner, panic].
ConsiderPair(g, acc, root, leaf) ==
    IF acc.panic # "none" THEN acc
    ELSE IF root = leaf /\ Len(acc.winner) = 0
        THEN [acc EXCEPT !.winner = <<root>>]
    ELSE LET paths == all_simple_paths(g, root, leaf) IN
         IF Cardinality(paths) > 1
            THEN [acc EXCEPT !.panic = "unreachable"]     \* at_most_one: Err(_)
         ELSE IF paths = {} THEN acc                       \* Ok(None)
         ELSE LET candidate == CHOOSE p \in paths : TRUE IN
              IF Len(candidate) > Len(acc.winner)
                 THEN [acc EXCEPT !.winner = candidate]
                 ELSE acc

RECURSIVE LeafLoop(_, _, _, _, _)
LeafLoop(g, acc, root, leaves, j) ==
    IF j > Len(leaves) THEN acc
    ELSE LeafLoop(g, ConsiderPair(g, acc, root, leaves[j]), root, leaves, j + 1)

RECURSIVE RootLoop(_, _, _, _, _)
RootLoop(g, acc, roots, leaves, i) ==
    IF i > Len(roots) THEN acc
    ELSE RootLoop(g, LeafLoop(g, acc, roots[i], leaves, 1), roots, leaves, i + 1)

\* calculate_winning_chain that takes as roots the nodes of the graph without
\* an incoming edge in place of root_blocks().
calculate_winning_chain_GraphRoots(blocks, g) ==
    LET roots == Sorted({n \in g.nodes : \A e \in g.edges : e[2] # n})
        found == RootLoop(g, [winner |-> <<>>, panic |-> "none"],
                          roots, leaf_blocks(blocks, g), 1)
    IN  IF found.panic # "none" THEN [chain |-> <<>>, panic |-> found.panic]
        ELSE IF \E k \in 1..Len(found.winner) : found.winner[k] \notin DOMAIN blocks
            THEN [chain |-> <<>>, panic |-> "out of sync"]
        ELSE [chain |-> [k \in 1..Len(found.winner) |-> blocks[found.winner[k]]],
              panic |-> "none"]

\* BlockGraph::calculate_winning_chain: [chain, panic].
calculate_winning_chain(blocks, g) ==
    LET found == RootLoop(g, [winner |-> <<>>, panic |-> "none"],
                          root_blocks(blocks), leaf_blocks(blocks, g), 1)
    IN  IF found.panic # "none" THEN [chain |-> <<>>, panic |-> found.panic]
        ELSE IF \E k \in 1..Len(found.winner) : found.winner[k] \notin DOMAIN blocks
            THEN [chain |-> <<>>, panic |-> "out of sync"]
        ELSE [chain |-> [k \in 1..Len(found.winner) |-> blocks[found.winner[k]]],
              panic |-> "none"]

\* The state of a BlockGraph as a value.
GraphState(blocks, g, chain, res) ==
    [blocks |-> blocks, graph |-> g, chain |-> chain, result |-> res]

\* The insertion with the fast path taken on winning_chain.first() in place of
\* winning_chain.last().
insert_vacant_FastOnFirst(st, block) ==
    LET blocks == [id \in DOMAIN st.blocks \cup {block.id} |->
                       IF id = block.id THEN block ELSE st.blocks[id]]
    IN  IF /\ block.parent # None
           /\ Len(st.chain) > 0
           /\ block.parent = st.chain[1].id
        THEN GraphState(blocks, add_edge(st.graph, block.parent, block.id),
                        Append(st.chain, block),
                        [ret |-> "Ok", arm |-> "fast"])
        ELSE LET g == IF block.parent # None
                         THEN add_edge(st.graph, block.parent, block.id)
                         ELSE add_node(st.graph, block.id)
                 arm == IF block.parent # None THEN "recalc_child" ELSE "recalc_root"
                 calc == calculate_winning_chain(blocks, g)
             IN  IF calc.panic # "none"
                    THEN GraphState(blocks, g, st.chain,
                                    [ret |-> "panic", arm |-> arm])
                    ELSE GraphState(blocks, g, calc.chain,
                                    [ret |-> "Ok", arm |-> arm])

\* The insertion of a block under a vacant id (the Entry::Vacant arm).
insert_vacant(st, block) ==
    LET blocks == [id \in DOMAIN st.blocks \cup {block.id} |->
                       IF id = block.id THEN block ELSE st.blocks[id]]
    IN  IF /\ block.parent # None
           /\ Len(st.chain) > 0
           /\ block.parent = Last(st.chain).id
        THEN \* fast path
             GraphState(blocks, add_edge(st.graph, block.parent, block.id),
                        Append(st.chain, block),
                        [ret |-> "Ok", arm |-> "fast"])
        ELSE LET g == IF block.parent # None
                         THEN add_edge(st.graph, block.parent, block.id)
                         ELSE add_node(st.graph, block.id)
                 arm == IF block.parent # None THEN "recalc_child" ELSE "recalc_root"
                 calc == calculate_winning_chain(blocks, g)
             IN  IF calc.panic # "none"
                    \* the panic unwinds before winning_chain is assigned
                    THEN GraphState(blocks, g, st.chain,
                                    [ret |-> "panic", arm |-> arm])
                    ELSE GraphState(blocks, g, calc.chain,
                                    [ret |-> "Ok", arm |-> arm])

\* add_block without the guard of the idempotent arm: every occupied id is a
\* conflict.
add_block_NoIdempotentArm(st, block) ==
    IF block.id \in DOMAIN st.blocks
    THEN [st EXCEPT !.result = [ret |-> "WouldClobber", arm |-> "clobber"]]
    ELSE insert_vacant(st, block)

\* add_block with HashMap::insert in place of the entry match: a different
\* block under a stored id replaces the stored one.
add_block_Overwrites(st, block) ==
    IF block.id \in DOMAIN st.blocks
    THEN IF st.blocks[block.id] = block
            THEN [st EXCEPT !.result = [ret |-> "Ok", arm |-> "idempotent"]]
            ELSE [st EXCEPT !.blocks[block.id] = block,
                            !.result = [ret |-> "Ok", arm |-> "clobber"]]
    ELSE insert_vacant(st, block)

\* BlockGraph::add_block
add_block(st, block) ==
    IF block.id \in DOMAIN st.blocks
    THEN IF st.blocks[block.id] = block
            THEN [st EXCEPT !.result = [ret |-> "Ok", arm |-> "idempotent"]]
            ELSE [st EXCEPT !.result = [ret |-> "WouldClobber", arm |-> "clobber"]]
    ELSE insert_vacant(st, block)

\* BlockGraph::default
EmptyGraph ==
    GraphState(<<>>, [nodes |-> {}, edges |-> {}], <<>>,
               [ret |-> "none", arm |-> "none"])

CurrentGraph ==
    GraphState(block_ids_to_blocks, block_id_graph, winning_chain, add_result)

GraphInit ==
    /\ block_ids_to_blocks = EmptyGraph.blocks
    /\ block_id_graph = EmptyGraph.graph
    /\ winning_chain = EmptyGraph.chain
    /\ add_result = EmptyGraph.result

\* A call of add_block with the given block.
AddBlock(block) ==
    LET st == add_block(CurrentGraph, block) IN
    /\ block_ids_to_blocks' = st.blocks
    /\ block_id_graph' = st.graph
    /\ winning_chain' = st.chain
    /\ add_result' = st.result

\* ------------------------------------------------------------------ BlockGraph claims

\* The stored graph, read off the blocks themselves: the roots, the leaves
\* and the path from a root down to a block along the parent links.
StoredRoots == {id \in DOMAIN block_ids_to_blocks : block_ids_to_blocks[id].parent = None}

StoredLeaves ==
    {id \in DOMAIN block_ids_to_blocks :
        \A c \in DOMAIN block_ids_to_blocks : block_ids_to_blocks[c].parent # id}

\* The ids from a root to id, or <<>> when the parent links from id do not
\* lead to a stored root within `fuel` steps.
RECURSIVE PathTo(_, _)
PathTo(id, fuel) ==
    IF id \notin DOMAIN block_ids_to_blocks THEN <<>>
    ELSE IF block_ids_to_blocks[id].parent = None THEN <<id>>
    ELSE IF fuel = 0 THEN <<>>
    ELSE LET up == PathTo(block_ids_to_blocks[id].parent, fuel - 1) IN
         IF up = <<>> THEN <<>> ELSE Append(up, id)

RootLeafPaths == {PathTo(leaf, MaxId) : leaf \in StoredLeaves} \ {<<>>}

ChainIds == [k \in 1..Len(winning_chain) |-> winning_chain[k].id]

\* An insertion order of the stored blocks in which a block comes after its
\* parent whenever the parent is stored too (lowest id first; a block of a
\* parent cycle when nothing else is left).
RECURSIVE TopologicalOrder(_)
TopologicalOrder(left) ==
    IF left = {} THEN <<>>
    ELSE LET ready == {id \in left : block_ids_to_blocks[id].parent \notin left}
             pick == IF ready # {} THEN Min(ready) ELSE Min(left)
         IN  <<block_ids_to_blocks[pick]>> \o TopologicalOrder(left \ {pick})

RECURSIVE InsertAll(_, _, _)
InsertAll(st, order, i) ==
    IF i > Len(order) THEN st
    ELSE InsertAll(add_block(st, order[i]), order, i + 1)

\* C1: whatever the order in which the stored blocks were inserted, the
\* winning chain is the one that inserting the same blocks parents-first
\* into an empty graph gives.
C1_OrderIndependent ==
    winning_chain =
        InsertAll(EmptyGraph, TopologicalOrder(DOMAIN block_ids_to_blocks), 1).chain

\* C2: the winning chain ends at a leaf of the stored graph and no root-to-leaf
\* path of the stored graph is longer than it.
C2_LongestEndsAtLeaf ==
    /\ winning_chain # <<>> => Last(winning_chain).id \in StoredLeaves
    /\ \A p \in RootLeafPaths : Len(p) <= Len(winning_chain)

\* C3: among the root-to-leaf paths of maximal length the winning chain is the
\* one with the lowest root id and, among those, the lowest leaf id.
LongestPaths == {p \in RootLeafPaths : \A q \in RootLeafPaths : Len(q) <= Len(p)}

EnumeratedBefore(p, q) ==
    \/ p[1] < q[1]
    \/ p[1] = q[1] /\ Last(p) <= Last(q)

C3_TieBreak ==
    RootLeafPaths # {} =>
        /\ ChainIds \in LongestPaths
        /\ \A q \in LongestPaths : EnumeratedBefore(ChainIds, q)

\* C4: in every reachable graph, add_block with a block equal to the stored
\* one returns Ok and leaves the map, the graph and the winning chain as
\* they are.
C4_Idempotent ==
    \A block \in Block :
        (/\ block.id \in DOMAIN block_ids_to_blocks
         /\ block_ids_to_blocks[block.id] = block)
        => LET st == add_block(CurrentGraph, block) IN
           /\ st.result.ret = "Ok"
           /\ st.blocks = block_ids_to_blocks
           /\ st.graph = block_id_graph
           /\ st.chain = winning_chain

\* A second add_block of a stored block has returned, on a graph whose
\* winning chain has a parent and a child.
C4_Witness ==
    /\ add_result = [ret |-> "Ok", arm |-> "idempotent"]
    /\ Len(winning_chain) >= 2

\* C5: in every reachable graph, add_block with a block whose id is stored
\* with another parent or other events returns WouldClobber and leaves the
\* stored block, the graph and the winning chain as they are.
C5_ConflictRejected ==
    \A block \in Block :
        (/\ block.id \in DOMAIN block_ids_to_blocks
         /\ block_ids_to_blocks[block.id] # block)
        => LET st == add_block(CurrentGraph, block) IN
           /\ st.result.ret = "WouldClobber"
           /\ st.blocks = block_ids_to_blocks
           /\ st.graph = block_id_graph
           /\ st.chain = winning_chain

\* A conflicting add_block has been rejected on a graph whose winning chain
\* has a parent and a child.
C5_Witness ==
    /\ add_result = [ret |-> "WouldClobber", arm |-> "clobber"]
    /\ Len(winning_chain) >= 2

\* ------------------------------------------------------------------ Ledger

\* checked_add that takes a sum equal to the maximum for an overflow.
checked_add_OffByOne(a, b) ==
    IF a + b >= MaxAmount THEN [some |-> FALSE, value |-> 0]
                          ELSE [some |-> TRUE, value |-> a + b]

\* AmountT::checked_add and checked_sub: [some, value].
checked_add(a, b) ==
    IF a + b > MaxAmount THEN [some |-> FALSE, value |-> 0]
                         ELSE [some |-> TRUE, value |-> a + b]

checked_sub(a, b) ==
    IF a - b < 0 THEN [some |-> FALSE, value |-> 0]
                 ELSE [some |-> TRUE, value |-> a - b]

\* HashMap::insert
MapInsert(m, k, v) ==
    [x \in DOMAIN m \cup {k} |-> IF x = k THEN v ELSE m[x]]

\* users_step whose Transfer arm credits the beneficiary and leaves the
\* benefactor's balance as it was.
users_step_NoDebit(acc, event) ==
    IF acc.panic # "none" THEN acc
    ELSE IF event.type = "NewUser" THEN
        [map |-> MapInsert(acc.map, event.identifier,
                           [balance |-> 0, public_key |-> event.public_key]),
         panic |-> IF event.identifier \in DOMAIN acc.map
                      THEN "duplicate users in history" ELSE "none"]
    ELSE IF event.type = "Mint" THEN
        IF event.beneficiary \notin DOMAIN acc.map
           THEN [acc EXCEPT !.panic = "no user for mint"]
        ELSE LET sum == checked_add(acc.map[event.beneficiary].balance, event.amount)
             IN  IF ~sum.some
                    THEN [acc EXCEPT !.panic = "mint overflows balance"]
                    ELSE [acc EXCEPT !.map[event.beneficiary].balance = sum.value]
    ELSE IF event.benefactor \notin DOMAIN acc.map
           THEN [acc EXCEPT !.panic = "no benefactor for transfer"]
    ELSE IF ~checked_sub(acc.map[event.benefactor].balance, event.amount).some
           THEN [acc EXCEPT !.panic = "transfer overdraws benefactor"]
    ELSE IF event.beneficiary \notin DOMAIN acc.map
           THEN [acc EXCEPT !.panic = "no beneficiary for transfer"]
    ELSE LET sum == checked_add(acc.map[event.beneficiary].balance, event.amount)
         IN  IF ~sum.some
                THEN [acc EXCEPT !.panic = "transfer overflows beneficiary"]
                ELSE [acc EXCEPT !.map[event.beneficiary].balance = sum.value]

\* The closure folded over the log by Ledger::users.  acc is [map, panic];
\* a panic ends the fold.
users_step(acc, event) ==
    IF acc.panic # "none" THEN acc
    ELSE IF event.type = "NewUser" THEN
        LET clobbered == event.identifier \in DOMAIN acc.map
            inserted == MapInsert(acc.map, event.identifier,
                                  [balance |-> 0, public_key |-> event.public_key])
        IN  IF clobbered
               THEN [map |-> inserted, panic |-> "duplicate users in history"]
               ELSE [map |-> inserted, panic |-> "none"]
    ELSE IF event.type = "Mint" THEN
        IF event.beneficiary \notin DOMAIN acc.map
           THEN [acc EXCEPT !.panic = "no user for mint"]
        ELSE LET sum == checked_add(acc.map[event.beneficiary].balance, event.amount)
             IN  IF ~sum.some
                    THEN [acc EXCEPT !.panic = "mint overflows balance"]
                    ELSE [acc EXCEPT !.map[event.beneficiary].balance = sum.value]
    ELSE \* Transfer
        IF event.benefactor \notin DOMAIN acc.map
           THEN [acc EXCEPT !.panic = "no benefactor for transfer"]
        ELSE LET rest == checked_sub(acc.map[event.benefactor].balance, event.amount)
             IN  IF ~rest.some
                    THEN [acc EXCEPT !.panic = "transfer overdraws benefactor"]
             ELSE LET debited ==
                          [acc.map EXCEPT ![event.benefactor].balance = rest.value]
                  IN  IF event.beneficiary \notin DOMAIN debited
                         THEN [map |-> debited,
                               panic |-> "no beneficiary for transfer"]
                      ELSE LET sum == checked_add(debited[event.beneficiary].balance,
                                                  event.amount)
                           IN  IF ~sum.some
                                  THEN [map |-> debited,
                                        panic |-> "transfer overflows beneficiary"]
                                  ELSE [map |-> [debited EXCEPT
                                                   ![event.beneficiary].balance =
                                                       sum.value],
                                        panic |-> "none"]

RECURSIVE users_fold(_, _, _)
users_fold(acc, log, i) ==
    IF i > Len(log) THEN acc
    ELSE users_fold(users_step(acc, log[i]), log, i + 1)

\* Ledger::users: the fold of the log from the empty map.
users(log) == users_fold([map |-> <<>>, panic |-> "none"], log, 1)

\* with_event_unchecked that puts the event in front of the log.
with_event_unchecked_Prepends(log, event) == <<event>> \o log

\* Ledger::with_event_unchecked
with_event_unchecked(log, event) == Append(log, event)

\* Ledger::could_receive: "Ok", "NoSuchAccount" or "WouldOverflow" ("panic"
\* when users() panics).  Here and below u is what self.users() returns, the
\* value of users(log) for the log of the ledger.
could_receive(u, beneficiary, amount) ==
    IF u.panic # "none" THEN "panic"
    ELSE IF beneficiary \notin DOMAIN u.map THEN "NoSuchAccount"
    ELSE IF checked_add(u.map[beneficiary].balance, amount).some
        THEN "Ok" ELSE "WouldOverflow"

\* could_send without the checked_sub: any known benefactor may send.
could_send_NoOverdrawCheck(u, benefactor, amount) ==
    IF u.panic # "none" THEN "panic"
    ELSE IF benefactor \notin DOMAIN u.map THEN "NoSuchAccount"
    ELSE "Ok"

\* Ledger::could_send: "Ok", "NoSuchAccount" or "WouldOverdraw".
could_send(u, benefactor, amount) ==
    IF u.panic # "none" THEN "panic"
    ELSE IF benefactor \notin DOMAIN u.map THEN "NoSuchAccount"
    ELSE IF checked_sub(u.map[benefactor].balance, amount).some
        THEN "Ok" ELSE "WouldOverdraw"

\* The value of a with_event call: ret is "Ok" or the error, ledger the log of
\* the returned ledger (of the receiver when there is none), verifier_calls
\* the arguments of each call of transfer_verifier.
Accepted(log, calls) ==
    [ret |-> "Ok", ledger |-> log, verifier_calls |-> calls]

Rejected(log, err, calls) ==
    [ret |-> err, ledger |-> log, verifier_calls |-> calls]

\* The Transfer arm that hands the verifier the beneficiary's public key.
with_transfer_BeneficiaryKey(log, u, event, block_id, event_index, verdict) ==
    LET receive == could_receive(u, event.beneficiary, event.amount) IN
    IF receive # "Ok" THEN Rejected(log, receive, <<>>)
    ELSE LET send == could_send(u, event.benefactor, event.amount) IN
         IF send # "Ok" THEN Rejected(log, send, <<>>)
         ELSE LET args ==
                      [block_id |-> block_id,
                       event_index |-> event_index,
                       benefactor |-> event.benefactor,
                       beneficiary |-> event.beneficiary,
                       amount |-> event.amount,
                       benefactor_public_key |->
                           u.map[event.beneficiary].public_key,
                       benefactor_signature |-> event.benefactor_signature]
              IN  IF ~verdict
                     THEN Rejected(log, "InvalidSignature", <<args>>)
                     ELSE Accepted(with_event_unchecked(log, event), <<args>>)

\* The Transfer arm of Ledger::with_event; verdict is what transfer_verifier
\* answers when it is called.
with_transfer(log, u, event, block_id, event_index, verdict) ==
    LET receive == could_receive(u, event.beneficiary, event.amount) IN
    IF receive # "Ok" THEN Rejected(log, receive, <<>>)
    ELSE LET send == could_send(u, event.benefactor, event.amount) IN
         IF send # "Ok" THEN Rejected(log, send, <<>>)
         ELSE LET args ==
                      [block_id |-> block_id,
                       event_index |-> event_index,
                       benefactor |-> event.benefactor,
                       beneficiary |-> event.beneficiary,
                       amount |-> event.amount,
                       benefactor_public_key |->
                           u.map[event.benefactor].public_key,
                       benefactor_signature |-> event.benefactor_signature]
              IN  IF ~verdict
                     THEN Rejected(log, "InvalidSignature", <<args>>)
                     ELSE Accepted(with_event_unchecked(log, event), <<args>>)

\* with_event whose NewUser arm does not look the identifier up.
with_event_NoUserIdCheck(log, u, event, block_id, event_index, verdict) ==
    IF event.type = "NewUser" THEN
        Accepted(with_event_unchecked(log, event), <<>>)
    ELSE IF event.type = "Mint" THEN
        LET receive == could_receive(u, event.beneficiary, event.amount) IN
        IF receive # "Ok" THEN Rejected(log, receive, <<>>)
        ELSE Accepted(with_event_unchecked(log, event), <<>>)
    ELSE with_transfer(log, u, event, block_id, event_index, verdict)

\* Ledger::with_event
with_event(log, u, event, block_id, event_index, verdict) ==
    IF event.type = "NewUser" THEN
        IF u.panic # "none" THEN Rejected(log, "panic", <<>>)
        ELSE IF event.identifier \in DOMAIN u.map
            THEN Rejected(log, "UserIdTaken", <<>>)
            ELSE Accepted(with_event_unchecked(log, event), <<>>)
    ELSE IF event.type = "Mint" THEN
        LET receive == could_receive(u, event.beneficiary, event.amount) IN
        IF receive # "Ok" THEN Rejected(log, receive, <<>>)
        ELSE Accepted(with_event_unchecked(log, event), <<>>)
    ELSE with_transfer(log, u, event, block_id, event_index, verdict)

LedgerInit ==
    /\ events = <<>>
    /\ accept_result = "none"

\* A call of with_event on the ledger the caller holds, u being what its
\* users() returns; the caller goes on with the returned ledger when there
\* is one.
WithEvent(u, event, block_id, event_index, verdict) ==
    LET r == with_event(events, u, event, block_id, event_index, verdict) IN
    /\ Len(events) < MaxLog
    /\ accept_result' = r.ret
    /\ events' = IF r.ret = "Ok" THEN r.ledger ELSE events

\* ------------------------------------------------------------------ Ledger claims

RECURSIVE SumBalances(_, _)
SumBalances(map, ids) ==
    IF ids = {} THEN 0
    ELSE LET id == CHOOSE x \in ids : TRUE IN
         map[id].balance + SumBalances(map, ids \ {id})

RECURSIVE SumMints(_, _)
SumMints(log, i) ==
    IF i > Len(log) THEN 0
    ELSE (IF log[i].type = "Mint" THEN log[i].amount ELSE 0) + SumMints(log, i + 1)

IsTransferAt(log, i) == log[i].type = "Transfer"

\* C6: for every accepted log, the balances of users() add up to the amounts
\* of the Mint events of the log.
C6_Conservation ==
    LET u == users(events) IN
    u.panic = "none" => SumBalances(u.map, DOMAIN u.map) = SumMints(events, 1)

\* A log in which a positive amount was minted and then moved between two
\* different users.
C6_Witness ==
    /\ accept_result = "Ok"
    /\ \E i \in 1..Len(events) :
          /\ IsTransferAt(events, i)
          /\ events[i].benefactor # events[i].beneficiary
          /\ events[i].amount > 0

\* C7: no accepted log holds a Transfer whose benefactor is its beneficiary.
C7_NoSelfTransfer ==
    \A i \in 1..Len(events) :
        IsTransferAt(events, i) => events[i].benefactor # events[i].beneficiary

\* C8: a Transfer in which the benefactor or the beneficiary has no summary
\* is rejected with NoSuchAccount, whatever the amount and the other party's
\* balance.
C8_UnknownPartyNoSuchAccount ==
    LET u == users(events) IN
    \A event \in TransferEvents, position \in VerifierPositions, verdict \in BOOLEAN :
        (event.benefactor \notin DOMAIN u.map \/ event.beneficiary \notin DOMAIN u.map)
        => with_event(events, u, event, position[1], position[2], verdict).ret
               = "NoSuchAccount"

AcceptEventError ==
    {"UserIdTaken", "WouldOverdraw", "NoSuchAccount", "WouldOverflow",
     "InvalidSignature"}

\* C9: a with_event call either returns one of the five errors and no new
\* ledger, the log staying as it was, or returns a ledger whose log is the
\* old log followed by exactly the event of the call.
C9_Frame ==
    LET u == users(events) IN
    \A event \in LedgerEvent, position \in VerifierPositions, verdict \in BOOLEAN :
        LET r == with_event(events, u, event, position[1], position[2], verdict) IN
        IF r.ret = "Ok"
           THEN /\ Len(r.ledger) = Len(events) + 1
                /\ SubSeq(r.ledger, 1, Len(events)) = events
                /\ Last(r.ledger) = event
           ELSE /\ r.ret \in AcceptEventError
                /\ r.ledger = events

\* An overdrawing Transfer was rejected on a ledger whose log holds events.
C9_Witness ==
    /\ accept_result = "WouldOverdraw"
    /\ Len(events) >= 2

\* C10: replaying an accepted log in users() fires none of its panics, and
\* every balance lies within the amount type.
C10_ReplayNeverPanics ==
    LET u == users(events) IN
    /\ u.panic = "none"
    /\ \A id \in DOMAIN u.map : u.map[id].balance \in 0..MaxAmount

\* A log with a Mint and a Transfer after which some balance is at the
\* maximum of the amount type.
C10_Witness ==
    /\ \E i \in 1..Len(events) : IsTransferAt(events, i) /\ events[i].amount > 0
    /\ LET u == users(events) IN
       \E id \in DOMAIN u.map : u.map[id].balance = MaxAmount

\* C11: with_event on a NewUser event returns UserIdTaken when the
\* identifier has a summary in users(); otherwise it succeeds and users() of
\* the new ledger is the old one plus that identifier with balance zero and
\* the event's public key.
C11_NewUser ==
    LET u == users(events) IN
    \A event \in NewUserEvents, position \in VerifierPositions, verdict \in BOOLEAN :
        LET r == with_event(events, u, event, position[1], position[2], verdict) IN
        IF event.identifier \in DOMAIN u.map
           THEN r.ret = "UserIdTaken"
           ELSE /\ r.ret = "Ok"
                /\ LET v == users(r.ledger) IN
                   /\ v.panic = "none"
                   /\ DOMAIN v.map = DOMAIN u.map \cup {event.identifier}
                   /\ v.map[event.identifier] =
                          [balance |-> 0, public_key |-> event.public_key]
                   /\ \A id \in DOMAIN u.map : v.map[id] = u.map[id]

\* A NewUser event was accepted on a ledger in which another user already
\* held a balance, and a later NewUser event for a taken identifier was
\* rejected.
C11_Witness ==
    /\ accept_result = "UserIdTaken"
    /\ \E i, j \in 1..Len(events) :
          /\ i < j
          /\ events[i].type = "Mint" /\ events[i].amount > 0
          /\ events[j].type = "NewUser"

\* C12: with_event on a Mint event returns NoSuchAccount when the beneficiary
\* has no summary, WouldOverflow when balance + amount exceeds the maximum of
\* the amount type, and otherwise succeeds with exactly that balance raised
\* by amount; the verifier is not called.
C12_Mint ==
    LET u == users(events) IN
    \A event \in MintEvents, position \in VerifierPositions, verdict \in BOOLEAN :
        LET r == with_event(events, u, event, position[1], position[2], verdict) IN
        /\ r.verifier_calls = <<>>
        /\ IF event.beneficiary \notin DOMAIN u.map
              THEN r.ret = "NoSuchAccount"
           ELSE IF u.map[event.beneficiary].balance + event.amount > MaxAmount
              THEN r.ret = "WouldOverflow"
           ELSE /\ r.ret = "Ok"
                /\ LET v == users(r.ledger) IN
                   /\ v.panic = "none"
                   /\ DOMAIN v.map = DOMAIN u.map
                   /\ v.map[event.beneficiary].balance =
                          u.map[event.beneficiary].balance + event.amount
                   /\ v.map[event.beneficiary].public_key =
                          u.map[event.beneficiary].public_key
                   /\ \A id \in DOMAIN u.map \ {event.beneficiary} :
                          v.map[id] = u.map[id]

\* The last call was a Mint that brought a balance that was not zero to the
\* maximum of the amount type, another user being registered.
C12_Witness ==
    /\ accept_result = "Ok"
    /\ Len(events) >= 2
    /\ Last(events).type = "Mint"
    /\ Last(events).amount \in 1..(MaxAmount - 1)
    /\ LET u == users(events) IN
       /\ Cardinality(DOMAIN u.map) = 2
       /\ u.map[Last(events).beneficiary].balance = MaxAmount

\* ------------------------------------------------------------------ winning-chain claims

\* The events of the block from position i on, handed one by one to
\* with_event with a verifier that accepts: [ok, ledger].
RECURSIVE ReplayBlock(_, _, _)
ReplayBlock(log, block, i) ==
    IF i > Len(block.events) THEN [ok |-> TRUE, ledger |-> log]
    ELSE LET r == with_event(log, users(log), block.events[i], block.id, i - 1, TRUE) IN
         IF r.ret = "Ok" THEN ReplayBlock(r.ledger, block, i + 1)
         ELSE [ok |-> FALSE, ledger |-> log]

\* The blocks of the chain from position k on, replayed in order.
RECURSIVE ReplayChain(_, _, _)
ReplayChain(log, chain, k) ==
    IF k > Len(chain) THEN [ok |-> TRUE, ledger |-> log]
    ELSE LET r == ReplayBlock(log, chain[k], 1) IN
         IF r.ok THEN ReplayChain(r.ledger, chain, k + 1) ELSE r

\* C17: after any sequence of blocks, the events of the winning chain,
\* replayed in order from an empty ledger through with_event, are all
\* accepted.
C17_WinningChainReplays ==
    ReplayChain(<<>>, winning_chain, 1).ok

\* C18: for a block whose id is not stored, add_block appends the block to
\* the winning chain without recomputing when the block's parent is the id of
\* the chain's last block; when the block has no parent, another parent, or
\* the chain is empty, the chain after the call is the recomputation over the
\* graph that holds the block.
C18_FastPath ==
    \A block \in Block :
        block.id \notin DOMAIN block_ids_to_blocks =>
            LET st == add_block(CurrentGraph, block) IN
            IF /\ winning_chain # <<>>
               /\ block.parent # None
               /\ block.parent = Last(winning_chain).id
               THEN /\ st.chain = Append(winning_chain, block)
                    /\ st.result = [ret |-> "Ok", arm |-> "fast"]
               ELSE LET calc == calculate_winning_chain(st.blocks, st.graph) IN
                    /\ calc.panic = "none"
                    /\ st.chain = calc.chain
                    /\ st.result.ret = "Ok"
                    /\ st.result.arm \in {"recalc_child", "recalc_root"}

\* The fast path has appended a block to a chain of two blocks or more.
C18_Witness ==
    /\ add_result = [ret |-> "Ok", arm |-> "fast"]
    /\ Len(winning_chain) >= 3
    /\ block_ids_to_blocks[Last(winning_chain).id] = Last(winning_chain)

\* C19: the winning chain is a sequence of distinct stored blocks, the first
\* without a parent and each later one with the id of the block before it as
\* its parent.
C19_ChainStructure ==
    /\ \A i \in 1..Len(winning_chain) :
          /\ winning_chain[i].id \in DOMAIN block_ids_to_blocks
          /\ block_ids_to_blocks[winning_chain[i].id] = winning_chain[i]
    /\ \A i, j \in 1..Len(winning_chain) :
          i # j => winning_chain[i].id # winning_chain[j].id
    /\ winning_chain # <<>> => winning_chain[1].parent = None
    /\ \A i \in 2..Len(winning_chain) :
          winning_chain[i].parent = winning_chain[i - 1].id

\* A chain of two blocks in a graph that also holds a block whose parent
\* links lead to no stored root.
C19_Witness ==
    /\ Len(winning_chain) >= 2
    /\ \E id \in DOMAIN block_ids_to_blocks :
          /\ block_ids_to_blocks[id].parent # None
          /\ PathTo(id, MaxId) = <<>>

\* C20: no add_block call, whether it stores the block, finds it stored or
\* rejects it, makes the winning chain shorter, and the winning chain is
\* empty exactly when no block without a parent is stored.
C20_MonotonicGrowth ==
    /\ (winning_chain = <<>>) <=> (StoredRoots = {})
    /\ \A block \in Block :
          LET st == add_block(CurrentGraph, block) IN
          /\ Len(st.chain) >= Len(winning_chain)
          /\ (st.chain = <<>>) <=>
                ({id \in DOMAIN st.blocks : st.blocks[id].parent = None} = {})

\* Two orphans are stored, no block without a parent is, and the chain is
\* empty after a rejected call.
C20_Witness ==
    /\ winning_chain = <<>>
    /\ Cardinality(DOMAIN block_ids_to_blocks) >= 2
    /\ StoredRoots = {}
    /\ add_result.ret = "WouldClobber"

\* C21: for every sequence of add_block calls, orphans, blocks naming
\* themselves as parent and parent cycles included, no recomputation panics:
\* there is at most one simple path from any root to any leaf, every id on
\* such a path is stored, and neither the last call nor any next call of
\* add_block ends in a panic.
C21_RecomputationNeverPanics ==
    /\ add_result.ret # "panic"
    /\ calculate_winning_chain(block_ids_to_blocks, block_id_graph).panic = "none"
    /\ \A root \in StoredRoots :
          \A leaf \in {id \in DOMAIN block_ids_to_blocks :
                          neighbors(block_id_graph, id) = {}} :
              LET paths == all_simple_paths(block_id_graph, root, leaf) IN
              /\ Cardinality(paths) <= 1
              /\ \A path \in paths : \A k \in 1..Len(path) :
                    path[k] \in DOMAIN block_ids_to_blocks
    /\ \A block \in Block : add_block(CurrentGraph, block).result.ret # "panic"

\* The winning chain has been recomputed on a graph that holds a root and
\* two blocks that are each other's parent.
C21_Witness ==
    /\ add_result.ret = "Ok"
    /\ add_result.arm \in {"recalc_child", "recalc_root"}
    /\ winning_chain # <<>>
    /\ \E a, b \in DOMAIN block_ids_to_blocks :
          /\ a # b
          /\ block_ids_to_blocks[a].parent = b
          /\ block_ids_to_blocks[b].parent = a

\* C22: with_event on a Transfer between two known users returns Ok exactly
\* when the benefactor's balance is at least the amount, the beneficiary's
\* balance plus the amount does not overflow and the verifier accepts; in the
\* returned ledger the benefactor's balance is lower by the amount, the
\* beneficiary's higher by the amount, and every other summary and every
\* public key is as before.
C22_TransferCommit ==
    LET u == users(events) IN
    \A event \in TransferEvents, position \in VerifierPositions, verdict \in BOOLEAN :
        (/\ event.benefactor \in DOMAIN u.map
         /\ event.beneficiary \in DOMAIN u.map)
        => LET r == with_event(events, u, event, position[1], position[2], verdict)
               passes == /\ u.map[event.benefactor].balance >= event.amount
                         /\ u.map[event.beneficiary].balance + event.amount <= MaxAmount
                         /\ verdict
           IN  /\ (r.ret = "Ok") <=> passes
               /\ r.ret = "Ok" =>
                     LET v == users(r.ledger) IN
                     /\ v.panic = "none"
                     /\ DOMAIN v.map = DOMAIN u.map
                     /\ v.map[event.benefactor].balance
                           = u.map[event.benefactor].balance - event.amount
                     /\ v.map[event.beneficiary].balance
                           = u.map[event.beneficiary].balance + event.amount
                     /\ \A id \in DOMAIN u.map :
                           /\ v.map[id].public_key = u.map[id].public_key
                           /\ id \notin {event.benefactor, event.beneficiary}
                                 => v.map[id] = u.map[id]

\* The public key of the NewUser event of the log that registered id.
RegisteredKey(log, id) ==
    LET i == CHOOSE i \in 1..Len(log) :
                 log[i].type = "NewUser" /\ log[i].identifier = id
    IN  log[i].public_key

\* C23: a with_event call calls transfer_verifier at most once, never for a
\* NewUser or a Mint, and for a Transfer exactly when both parties are known,
\* the beneficiary's balance does not overflow and the benefactor's covers
\* the amount; the call gets the caller's block_id and event_index, the
\* event's benefactor, beneficiary, amount and signature and the public key
\* the benefactor's NewUser event registered; when the verifier rejects,
\* with_event returns InvalidSignature.
C23_VerifierProtocol ==
    LET u == users(events) IN
    \A event \in LedgerEvent, position \in VerifierPositions, verdict \in BOOLEAN :
        LET r == with_event(events, u, event, position[1], position[2], verdict) IN
        /\ Len(r.verifier_calls) <= 1
        /\ event.type # "Transfer" => r.verifier_calls = <<>>
        /\ event.type = "Transfer" =>
              LET checked ==
                      /\ event.benefactor \in DOMAIN u.map
                      /\ event.beneficiary \in DOMAIN u.map
                      /\ u.map[event.beneficiary].balance + event.amount <= MaxAmount
                      /\ u.map[event.benefactor].balance >= event.amount
              IN  /\ (r.verifier_calls # <<>>) <=> checked
                  /\ checked =>
                        /\ r.verifier_calls[1] =
                              [block_id |-> position[1],
                               event_index |-> position[2],
                               benefactor |-> event.benefactor,
                               beneficiary |-> event.beneficiary,
                               amount |-> event.amount,
                               benefactor_public_key |->
                                   RegisteredKey(events, event.benefactor),
                               benefactor_signature |-> event.benefactor_signature]
                        /\ ~verdict => r.ret = "InvalidSignature"
                        /\ verdict => r.ret = "Ok"

\* The verifier has rejected a Transfer on a ledger whose two users
\* registered different public keys.
C23_Witness ==
    /\ accept_result = "InvalidSignature"
    /\ \E i, j \in 1..Len(events) :
          /\ events[i].type = "NewUser"
          /\ events[j].type = "NewUser"
          /\ events[i].public_key # events[j].public_key

\* ------------------------------------------------------------------ proof of work

\* Complex multiplication and addition, as num::Complex computes them.
complex_mul(a, b) ==
    Complex(a.re * b.re - a.im * b.im, a.re * b.im + a.im * b.re)

complex_add(a, b) == Complex(a.re + b.re, a.im + b.im)

\* iterate_julia: z.powu(2) + c
iterate_julia(c, z) == complex_add(complex_mul(z, z), c)

WorkResult(ret, value, iterations) ==
    [ret |-> ret, value |-> value, iterations |-> iterations]

\* The loop `for iteration in 0..=target_iterations` of check_work, from the
\* given iteration on; `current` is the iterate before the loop body runs.
RECURSIVE check_work_loop(_, _, _, _, _, _, _)
check_work_loop(c, re_min, re_max, candidate, target_iterations, current, iteration) ==
    IF iteration > target_iterations
       THEN WorkResult("LeftSetTooLateOrNotAtAll", candidate, iteration)
    ELSE LET next == iterate_julia(c, current) IN
         IF next.re < re_min \/ next.re > re_max
            THEN IF iteration = target_iterations
                    THEN WorkResult("Ok", candidate, iteration + 1)
                    ELSE WorkResult("LeftSetTooEarly", candidate, iteration + 1)
            ELSE check_work_loop(c, re_min, re_max, candidate, target_iterations,
                                 next, iteration + 1)

\* check_work whose loop runs one iteration further.
check_work_OneMore(c, re_min, re_max, candidate, target_iterations) ==
    check_work_loop(c, re_min, re_max, candidate, target_iterations + 1, candidate, 0)

\* check_work that accepts a candidate leaving the set before the last step.
check_work_AcceptsEarly(c, re_min, re_max, candidate, target_iterations) ==
    LET r == check_work_loop(c, re_min, re_max, candidate, target_iterations,
                             candidate, 0)
    IN  IF r.ret = "LeftSetTooEarly" THEN [r EXCEPT !.ret = "Ok"] ELSE r

\* check_work that hands back the first iterate instead of the candidate.
check_work_ReturnsIterate(c, re_min, re_max, candidate, target_iterations) ==
    LET r == check_work_loop(c, re_min, re_max, candidate, target_iterations,
                             candidate, 0)
    IN  IF r.ret = "Ok" THEN [r EXCEPT !.value = iterate_julia(c, candidate)] ELSE r

\* check_work: [ret, value, iterations], value being the payload of Ok and
\* iterations the number of iterate_julia calls made.
check_work(c, re_min, re_max, candidate, target_iterations) ==
    check_work_loop(c, re_min, re_max, candidate, target_iterations, candidate, 0)

WorkArgs(puzzle, candidate, target_iterations) ==
    [c |-> puzzle.c, re_min |-> puzzle.re_min, re_max |-> puzzle.re_max,
     candidate |-> candidate, target_iterations |-> target_iterations]

\* Before any check_work call.
WorkInit ==
    /\ work_args = WorkArgs(CHOOSE p \in Puzzles : TRUE, Complex(0, 0), 0)
    /\ work_result = WorkResult("none", Complex(0, 0), 0)

\* A call of check_work.
CheckWork(puzzle, candidate, target_iterations) ==
    /\ work_args' = WorkArgs(puzzle, candidate, target_iterations)
    /\ work_result' = check_work(puzzle.c, puzzle.re_min, puzzle.re_max,
                                 candidate, target_iterations)

\* do_work before its first sample, called with the given arguments.
DoWorkCalled(puzzle, target_iterations) ==
    /\ dw_args = [c |-> puzzle.c, re_min |-> puzzle.re_min,
                  re_max |-> puzzle.re_max, target_iterations |-> target_iterations]
    /\ dw_pc = "outer"
    /\ dw_re = 0
    /\ dw_tested = <<>>
    /\ dw_found = Complex(0, 0)
    /\ dw_draws = [re |-> 0, im |-> 0]

\* The outer loop of do_work takes the next `re` from its sampler.
DoWorkOuter ==
    /\ dw_pc = "outer"
    /\ \E re \in UniformSamples(dw_args.re_min, dw_args.re_max) : dw_re' = re
    /\ dw_draws' = [dw_draws EXCEPT !.re = @ + 1]
    /\ dw_pc' = "inner"
    /\ UNCHANGED <<dw_args, dw_tested, dw_found>>

\* An iteration of the inner loop of do_work: the next `im` from its sampler,
\* check_work on (re, im), and the return when it is Ok.  The sampler never
\* runs dry, so the inner loop is only ever left by the return.
DoWorkInner ==
    /\ dw_pc = "inner"
    /\ Len(dw_tested) < MaxAttempts
    /\ \E im \in UniformSamples(-1, 1) :
          LET candidate == Complex(dw_re, im)
              checked == check_work(dw_args.c, dw_args.re_min, dw_args.re_max,
                                    candidate, dw_args.target_iterations)
          IN  /\ dw_tested' = Append(dw_tested, candidate)
              /\ IF checked.ret = "Ok"
                    THEN dw_found' = checked.value /\ dw_pc' = "returned"
                    ELSE UNCHANGED <<dw_found, dw_pc>>
    /\ dw_draws' = [dw_draws EXCEPT !.im = @ + 1]
    /\ UNCHANGED <<dw_args, dw_re>>

\* ------------------------------------------------------------------ proof-of-work claims

\* The k-th iterate of z -> z^2 + c from z.
RECURSIVE NthIterate(_, _, _)
NthIterate(c, z, k) ==
    IF k = 0 THEN z ELSE iterate_julia(c, NthIterate(c, z, k - 1))

\* The k-th iterate has its real part outside [re_min, re_max].
OutAt(c, re_min, re_max, z, k) ==
    LET w == NthIterate(c, z, k) IN w.re < re_min \/ w.re > re_max

\* The first step in k..limit at which the iterate is out of bounds, 0 when
\* there is none.
RECURSIVE FirstEscape(_, _, _, _, _, _)
FirstEscape(c, re_min, re_max, z, k, limit) ==
    IF k > limit THEN 0
    ELSE IF OutAt(c, re_min, re_max, z, k) THEN k
    ELSE FirstEscape(c, re_min, re_max, z, k + 1, limit)

\* C13: with e the first step k >= 1 at which the k-th iterate of the
\* candidate is out of bounds, check_work returns Ok(candidate) exactly when
\* e = target_iterations + 1, LeftSetTooEarly exactly when
\* e <= target_iterations, LeftSetTooLateOrNotAtAll exactly when there is no
\* such e up to target_iterations + 1, and it iterates at most
\* target_iterations + 1 times.
C13_CheckWorkOutcome ==
    work_result.ret # "none" =>
        LET a == work_args
            t == a.target_iterations
            e == FirstEscape(a.c, a.re_min, a.re_max, a.candidate, 1, t + 1)
        IN  /\ work_result.ret \in {"Ok", "LeftSetTooEarly", "LeftSetTooLateOrNotAtAll"}
            /\ (work_result.ret = "Ok") <=> (e = t + 1)
            /\ (work_result.ret = "Ok") => (work_result.value = a.candidate)
            /\ (work_result.ret = "LeftSetTooEarly") <=> (e \in 1..t)
            /\ (work_result.ret = "LeftSetTooLateOrNotAtAll") <=> (e = 0)
            /\ work_result.iterations <= t + 1

\* check_work succeeded on a candidate that stayed in bounds for two steps
\* or more and left at the last one.
C13_Witness ==
    /\ work_result.ret = "Ok"
    /\ work_args.target_iterations >= 2
    /\ work_result.iterations = work_args.target_iterations + 1

\* C14: for fixed c, re_min, re_max and candidate, when check_work succeeds
\* for target_iterations it fails for every other value of it, the
\* neighbours target_iterations - 1 and target_iterations + 1 included.
C14_MutualExclusion ==
    work_result.ret = "Ok" =>
        LET a == work_args IN
        \A other \in (0..(MaxTarget + 1)) \ {a.target_iterations} :
            check_work(a.c, a.re_min, a.re_max, a.candidate, other).ret
                \in {"LeftSetTooEarly", "LeftSetTooLateOrNotAtAll"}

\* check_work succeeded for a target that has both neighbours, one of which
\* fails as too early and the other as too late.
C14_Witness ==
    /\ work_result.ret = "Ok"
    /\ work_args.target_iterations \in 1..MaxTarget
    /\ LET a == work_args IN
       /\ check_work(a.c, a.re_min, a.re_max, a.candidate,
                     a.target_iterations - 1).ret = "LeftSetTooLateOrNotAtAll"
       /\ check_work(a.c, a.re_min, a.re_max, a.candidate,
                     a.target_iterations + 1).ret = "LeftSetTooEarly"

\* C15: do_work samples a fresh re and a fresh im for each attempt, so each
\* of its samplers has been drawn from at least once per candidate tested.
C15_FreshSamples ==
    /\ dw_draws.re >= Len(dw_tested)
    /\ dw_draws.im >= Len(dw_tested)

\* C16: when do_work returns a value, check_work on that value returns
\* Ok(value); the value is the last candidate tested and every candidate
\* tested before it failed check_work; while do_work has not returned, every
\* candidate tested failed.
C16_RoundTrip ==
    LET passes(z) == check_work(dw_args.c, dw_args.re_min, dw_args.re_max, z,
                                dw_args.target_iterations)
    IN  IF dw_pc = "returned"
           THEN /\ passes(dw_found).ret = "Ok"
                /\ passes(dw_found).value = dw_found
                /\ dw_tested # <<>>
                /\ dw_found = Last(dw_tested)
                /\ \A i \in 1..(Len(dw_tested) - 1) : passes(dw_tested[i]).ret # "Ok"
           ELSE \A i \in 1..Len(dw_tested) : passes(dw_tested[i]).ret # "Ok"

\* do_work returned after a candidate that failed.
C16_Witness ==
    /\ dw_pc = "returned"
    /\ Len(dw_tested) >= 2
    /\ dw_found = Last(dw_tested)

\* ------------------------------------------------------------------ do-work harness

Threads == 1..MaxThreads

\* What a do_work call with the given arguments can return: a sample that
\* check_work accepts.
DoWorkReturns(puzzle, target_iterations) ==
    {z \in {Complex(re, im) : re \in UniformSamples(puzzle.re_min, puzzle.re_max),
                              im \in UniformSamples(-1, 1)} :
        check_work(puzzle.c, puzzle.re_min, puzzle.re_max, z, target_iterations).ret = "Ok"}

\* main after Args::parse and channel(), before the first spawn.
HarnessStarted(keep_going, num_threads, puzzle, target_iterations) ==
    /\ h_args = [keep_going |-> keep_going, num_threads |-> num_threads,
                 puzzle |-> puzzle, target_iterations |-> target_iterations]
    /\ h_main = "spawn"
    /\ h_spawned = 0
    /\ h_worker = [w \in Threads |-> "unspawned"]
    /\ h_found = [w \in Threads |-> Complex(0, 0)]
    /\ h_channel = <<>>
    /\ h_got = <<>>
    /\ h_finds = 0

\* An iteration of `for thread_num in 0..num_threads`, or its end.
MainSpawn ==
    /\ h_main = "spawn"
    /\ IF h_spawned < h_args.num_threads
          THEN /\ h_spawned' = h_spawned + 1
               /\ h_worker' = [h_worker EXCEPT ![h_spawned + 1] = "searching"]
               /\ UNCHANGED h_main
          ELSE /\ h_main' = "recv"
               /\ UNCHANGED <<h_spawned, h_worker>>
    /\ UNCHANGED <<h_args, h_found, h_channel, h_got, h_finds>>

\* main that takes a value only once every thread has sent one.
MainRecv_WaitsForAll ==
    /\ h_main = "recv"
    /\ h_channel # <<>>
    /\ Len(h_channel) >= h_args.num_threads
    /\ h_got' = <<Head(h_channel)>>
    /\ h_channel' = Tail(h_channel)
    /\ h_main' = "received"
    /\ UNCHANGED <<h_args, h_spawned, h_worker, h_found, h_finds>>

\* receiver.recv().unwrap(): blocks while the channel is empty.  main holds
\* `sender` itself, so the channel is never disconnected and recv never
\* returns Err.
MainRecv ==
    /\ h_main = "recv"
    /\ h_channel # <<>>
    /\ h_got' = <<Head(h_channel)>>
    /\ h_channel' = Tail(h_channel)
    /\ h_main' = "received"
    /\ UNCHANGED <<h_args, h_spawned, h_worker, h_found, h_finds>>

\* Ok(()): main returns and its locals, the receiver among them, are dropped.
MainReturn ==
    /\ h_main = "received"
    /\ h_main' = "returned"
    /\ UNCHANGED <<h_args, h_spawned, h_worker, h_found, h_channel, h_got, h_finds>>

\* The process exits after main has returned; every thread ends with it.
ProcessExit ==
    /\ h_main = "returned"
    /\ h_main' = "exited"
    /\ UNCHANGED <<h_args, h_spawned, h_worker, h_found, h_channel, h_got, h_finds>>

\* do_work returns in thread w (it need not ever).
WorkerFound(w) ==
    /\ h_main # "exited"
    /\ h_worker[w] = "searching"
    /\ h_finds < MaxFinds
    /\ \E found \in DoWorkReturns(h_args.puzzle, h_args.target_iterations) :
          h_found' = [h_found EXCEPT ![w] = found]
    /\ h_worker' = [h_worker EXCEPT ![w] = "found"]
    /\ h_finds' = h_finds + 1
    /\ UNCHANGED <<h_args, h_main, h_spawned, h_channel, h_got>>

\* The rest of the loop body of thread w: `if !args.keep_going
\* { sender.send(found).unwrap(); }`.  send never blocks; it returns Err, and
\* the unwrap panics, once the receiver is dropped.
WorkerReport(w) ==
    /\ h_main # "exited"
    /\ h_worker[w] = "found"
    /\ IF h_args.keep_going
          THEN /\ h_worker' = [h_worker EXCEPT ![w] = "searching"]
               /\ UNCHANGED h_channel
       ELSE IF h_main = "returned"
          THEN /\ h_worker' = [h_worker EXCEPT ![w] = "panicked"]
               /\ UNCHANGED h_channel
          ELSE /\ h_channel' = Append(h_channel, h_found[w])
               /\ h_worker' = [h_worker EXCEPT ![w] = "searching"]
    /\ UNCHANGED <<h_args, h_main, h_spawned, h_found, h_got, h_finds>>

\* ------------------------------------------------------------------ harness claims

\* C24 (what may never happen): main leaves recv only with a value a worker
\* sent, which happens only with keep_going unset; with keep_going set no
\* worker sends or panics and main stays in the spawn loop or in recv.
HarnessSafe ==
    /\ h_main \in {"received", "returned", "exited"} =>
          /\ ~h_args.keep_going
          /\ Len(h_got) = 1
          /\ h_got[1] \in DoWorkReturns(h_args.puzzle, h_args.target_iterations)
    /\ h_args.keep_going =>
          /\ h_channel = <<>>
          /\ h_got = <<>>
          /\ h_main \in {"spawn", "recv"}
          /\ \A w \in Threads : h_worker[w] # "panicked"

\* C24: with keep_going unset, once one worker has sent a value main returns
\* and the process exits, whatever the other workers do, and a worker that
\* has found a solution gets through its send (or the process exits); with
\* keep_going set no worker ever sends, main waits on the channel for ever
\* and every worker goes back to searching after each solution.
C24_SearchHarness ==
    /\ []HarnessSafe
    /\ (h_channel # <<>>) ~> (h_main = "exited")
    /\ \A w \in Threads :
          (h_worker[w] = "found") ~> (h_worker[w] # "found" \/ h_main = "exited")

\* The process has exited on the first value while a second value, sent by
\* a worker before the exit, is still in the channel.
C24_Witness ==
    /\ h_main = "exited"
    /\ ~h_args.keep_going
    /\ h_channel # <<>>

\* ------------------------------------------------------------------ specifications

\* The call of do_work the other specifications leave alone.
DoWorkIdle == DoWorkCalled(CHOOSE p \in Puzzles : TRUE, 0)

\* The run of do-work the other specifications leave alone.
HarnessIdle == HarnessStarted(FALSE, 0, CHOOSE p \in Puzzles : TRUE, 0)

Init == GraphInit /\ LedgerInit /\ WorkInit /\ DoWorkIdle /\ HarnessIdle

Next ==
    /\ \E block \in Block : AddBlock(block)
    /\ UNCHANGED <<ledger_vars, work_vars, dw_vars, h_vars>>

Spec == Init /\ [][Next]_vars

LedgerNext ==
    /\ LET u == users(events) IN
       \E event \in LedgerEvent, position \in VerifierPositions,
          verdict \in BOOLEAN :
            WithEvent(u, event, position[1], position[2], verdict)
    /\ UNCHANGED <<graph_vars, work_vars, dw_vars, h_vars>>

SpecLedger == Init /\ [][LedgerNext]_vars

CheckWorkNext ==
    /\ \E puzzle \in Puzzles, candidate \in Candidates,
          target_iterations \in TargetIterations :
            CheckWork(puzzle, candidate, target_iterations)
    /\ UNCHANGED <<graph_vars, ledger_vars, dw_vars, h_vars>>

SpecCheckWork == Init /\ [][CheckWorkNext]_vars

DoWorkInit ==
    /\ GraphInit /\ LedgerInit /\ WorkInit /\ HarnessIdle
    /\ \E puzzle \in Puzzles, target_iterations \in TargetIterations :
          DoWorkCalled(puzzle, target_iterations)

DoWorkNext ==
    /\ DoWorkOuter \/ DoWorkInner
    /\ UNCHANGED <<graph_vars, ledger_vars, work_vars, h_vars>>

SpecDoWork == DoWorkInit /\ [][DoWorkNext]_vars

HarnessInit ==
    /\ GraphInit /\ LedgerInit /\ WorkInit /\ DoWorkIdle
    /\ \E keep_going \in BOOLEAN, num_threads \in 0..MaxThreads,
          puzzle \in Puzzles, target_iterations \in TargetIterations :
            HarnessStarted(keep_going, num_threads, puzzle, target_iterations)

HarnessNext ==
    /\ \/ MainSpawn
       \/ MainRecv
       \/ MainReturn
       \/ ProcessExit
       \/ \E w \in Threads : WorkerFound(w)
       \/ \E w \in Threads : WorkerReport(w)
    /\ UNCHANGED <<graph_vars, ledger_vars, work_vars, dw_vars>>

\* The operating system schedules main and every thread again and again; no
\* fairness makes do_work return.
HarnessFairness ==
    /\ WF_h_vars(MainSpawn)
    /\ WF_h_vars(MainRecv)
    /\ WF_h_vars(MainReturn)
    /\ WF_h_vars(ProcessExit)
    /\ \A w \in Threads : WF_h_vars(WorkerReport(w))

SpecHarness == HarnessInit /\ [][HarnessNext]_vars /\ HarnessFairness

====
